---- MODULE Spec2Model ----
(***************************************************************************)
(* ExtractOTIOReview (pype/plugins/global/publish/extract_otio_review.py). *)
(*                                                                         *)
(* One call of process(instance) is modelled as a state machine.  The call *)
(* is cut at its external calls: every transcoder invocation               *)
(* (_render_seqment, which runs pype.api.subprocess and may raise) is one  *)
(* step, and the code that runs from the return of one invocation to the   *)
(* next one (the ledger update _generate_used_frames and what follows it)  *)
(* is one step.  The items of instance.data["otioReviewClips"] are         *)
(* read-only input; the loop reads one item per pass, so the item is drawn *)
(* when the loop reads it, and only the length of the list and the type of *)
(* its first item (both read by the skip test before the loop) are fixed   *)
(* from the start.  The locals of a pass are kept while the pass runs.     *)
(***************************************************************************)
EXTENDS Integers, Sequences, FiniteSets, TLC

\* ------------------------------------------------------------------ bounds
MaxItems == 3
MaxDuration == 2
MaxHandle == 1
\* the available media of a Clip is up to one frame longer than an item
MaxAvailable == MaxDuration + 1

\* instance.data.get("workfileFrameStart", 1001)
DefaultWorkfileStart == 1001
MaxMembers == 3

VARIABLES
    \* instance.data (input of the call)
    n_clips,                \* len(otio_review_clips)
    first_type,             \* type of otio_review_clips[0]: "Clip" or "Gap"
    handle_start,
    handle_end,
    workfileFrameStart,     \* <<>> when the key is absent, <<v>> otherwise
    has_representations,    \* "representations" is a key of instance.data
    representations,        \* instance.data["representations"]
    \* attributes process sets on the plugin object
    used_frames,
    workfile_start,
    padding,
    \* position of the call and the exception it ended with
    pc,
    error,
    \* locals of process
    index,
    r_otio_cl,              \* the item of the running pass
    start,
    duration,
    available_range,
    \* locals of the running _trim_available_range call
    trim,
    \* arguments of the segment being rendered and recorded
    segment,
    \* history
    data_before,            \* <<has_representations, representations>> at the call
    sum_durations,          \* sum of source_range durations of the items read
    sum_windows,            \* sum of the durations of the windows used
    all_covered,            \* every Clip read had its window inside its media
    n_invocations,          \* transcoder invocations of the call
    item_renders,           \* transcoder invocations of the running pass
    item_ledger,            \* ledger updates of the running pass
    \* a publish session: several plugin objects and calls of process
    plugins,                \* the attributes set on each plugin object
    calls,                  \* each call of process: its instance and its position
    disk,                   \* the files the transcoder wrote
    \* the Maya scene and the create context of the render layer creator
    singleton_nodes,        \* the sets that carry pre_creator_identifier
    render_layers,          \* the render layers of the render setup
    instance_nodes,         \* the set of each layer and the data imprinted on it
    renderer_settings,      \* the renderer settings of the scene
    apply_render_settings,  \* the project setting of that name
    context,                \* the instances of the create context
    op,                     \* the last call of the creator and how it ended
    \* one call of the tyFlow operator validation
    members,                \* the members of the instance, each its sub-anims
    sel,                    \* the position of the member loop
    bool_list,              \* the list the loop appends to
    invalid,                \* the positions of the members found invalid
    tpc                     \* the position of the call

instance == <<n_clips, first_type, handle_start, handle_end, workfileFrameStart>>
instance_data == <<has_representations, representations>>
ledger == <<used_frames, workfile_start, padding>>
locals == <<index, r_otio_cl, start, duration, available_range, trim, segment>>
history == <<data_before, sum_durations, sum_windows, all_covered>>
logs == <<n_invocations, item_renders, item_ledger>>
session == <<plugins, calls, disk>>
maya == <<singleton_nodes, render_layers, instance_nodes, renderer_settings,
          apply_render_settings, context, op>>
tyflow == <<members, sel, bool_list, invalid, tpc>>
hosts == <<maya, tyflow>>
vars == <<instance, instance_data, ledger, pc, error, locals, history, logs,
          session, hosts>>

\* no call of process is made in a session of the hosts
NoSession == plugins = <<>> /\ calls = <<>> /\ disk = {}

NoOp == [name |-> "none", args |-> {}, error |-> "none", after |-> <<>>]

\* the render layer creator is not in use
NoScene ==
    /\ singleton_nodes = {}
    /\ render_layers = {}
    /\ instance_nodes = <<>>
    /\ renderer_settings = "default"
    /\ apply_render_settings = FALSE
    /\ context = {}
    /\ op = NoOp

\* the tyFlow validation is not in use
NoMembers ==
    /\ members = <<>>
    /\ sel = 0
    /\ bool_list = <<>>
    /\ invalid = <<>>
    /\ tpc = "idle"

\* ------------------------------------------------------------------ values
NoRange == [start |-> 0, duration |-> 0]
NoTrim == [avl_start |-> 0, src_start |-> 0, avl_durtation |-> 0,
           start |-> 0, duration |-> 0, gap_duration |-> 0]
NoSegment == [kind |-> "none", duration |-> 0, end_offset |-> 0]
PriorRepresentation ==
    [name |-> "exr", ext |-> "exr", files |-> <<>>, frameStart |-> 0,
     frameEnd |-> 0, stagingDir |-> "prior", tags |-> <<>>]

NoItem == [type |-> "none", start |-> 0, duration |-> 0,
           avl_start |-> 0, avl_duration |-> 0, padding |-> FALSE]

\* an item of otio_review_clips: its type, its source_range, and for a Clip
\* its available_range() and the "padding" of its media reference's metadata
Gap(d) == [type |-> "Gap", start |-> 0, duration |-> d,
           avl_start |-> 0, avl_duration |-> 0, padding |-> FALSE]
Clip(s, d, a, ad, p) == [type |-> "Clip", start |-> s, duration |-> d,
                         avl_start |-> a, avl_duration |-> ad, padding |-> p]

\* the media of a Clip: a video file, whose available range starts at 0, or
\* an image sequence (padding metadata), whose range starts at its first frame
Media == {[avl_start |-> 0, padding |-> FALSE], [avl_start |-> 3, padding |-> TRUE]}
\* a source range starts at the first frame of its media, or one frame in
Starts == {0, 1}

\* A Clip's source range starts inside (or at the end of) its available media.
Items ==
    {Gap(d) : d \in 1..MaxDuration}
    \cup {c \in {Clip(s, d, m.avl_start, ad, m.padding) :
                    s \in Starts, d \in 1..MaxDuration, m \in Media,
                    ad \in 1..MaxAvailable} :
             c.avl_duration >= c.start}

\* Section 8's scenario: [Gap(5), Clip(available=[0,10), requested=[0,10))],
\* handleStart=2, handleEnd=0, workfileFrameStart=1001
ScenarioTrack == <<Gap(5), Clip(0, 10, 0, 10, FALSE)>>
ScenarioHandles == <<2, 0>>

\* the values of instance.data: workfileFrameStart (<<>>: no such key), whether
\* "representations" is a key, and its value
InstanceData ==
    {[workfileFrameStart |-> <<>>, has_representations |-> FALSE,
      representations |-> <<>>],
     [workfileFrameStart |-> <<>>, has_representations |-> TRUE,
      representations |-> <<>>],
     [workfileFrameStart |-> <<98>>, has_representations |-> TRUE,
      representations |-> <<PriorRepresentation>>]}

\* ------------------------------------------------- formatting and parsing
\* str(n) for n >= 0, as the sequence of its decimal digits
RECURSIVE str(_)
str(n) == IF n < 10 THEN <<n>> ELSE str(n \div 10) \o <<n % 10>>

RECURSIVE Zeros(_)
Zeros(k) == IF k <= 0 THEN <<>> ELSE <<0>> \o Zeros(k - 1)

\* "{:0<pad>d}".format(n): zero filled to at least pad characters; a negative
\* number carries its sign (written -1 here) in front of the zeros
format(n, pad) ==
    IF n >= 0
    THEN Zeros(pad - Len(str(n))) \o str(n)
    ELSE <<-1>> \o Zeros(pad - 1 - Len(str(-n))) \o str(-n)

RECURSIVE DigitsValue(_)
DigitsValue(s) ==
    IF s = <<>> THEN 0
    ELSE 10 * DigitsValue(SubSeq(s, 1, Len(s) - 1)) + s[Len(s)]

\* int(text) of a formatted number
int(s) == IF s # <<>> /\ s[1] = -1 THEN -DigitsValue(Tail(s)) ELSE DigitsValue(s)

\* ------------------------------------------------------ time range helpers
_range_from_frames(s, d) == [start |-> s, duration |-> d]

\* mutant: the start of the media range is left out
_trim_media_range_unshifted(media_range, source_range) ==
    [start |-> source_range.start, duration |-> source_range.duration]

_trim_media_range(media_range, source_range) ==
    [start |-> media_range.start + source_range.start,
     duration |-> source_range.duration]

\* pype.lib.otio_range_to_frame_range: the first and the last frame of a range
otio_range_to_frame_range(otio_range) ==
    <<otio_range.start, otio_range.start + otio_range.duration - 1>>

\* the indexes of the collection _make_sequence_collection builds
_make_sequence_collection(otio_range) ==
    LET fl == otio_range_to_frame_range(otio_range)
    IN  fl[1] .. fl[2]

\* ------------------------------------------------------------ frame ledger
Last(s) == s[Len(s)]

\* mutant: the start number is always the one after the last entry
_get_ffmpeg_output_next(uf, ws) == Last(uf) + 1

_get_ffmpeg_output(uf, ws) ==
    IF Last(uf) = ws THEN Last(uf) ELSE Last(uf) + 1

\* mutant: the seed entry stays the last unassigned frame
RECURSIVE AppendFrames_seed_kept(_, _, _, _, _)
AppendFrames_seed_kept(uf, ws, pad, n, acc) ==
    IF n <= 0
    THEN [used_frames |-> uf, workfile_start |-> ws, frames |-> acc]
    ELSE IF Last(uf) = ws
         THEN AppendFrames_seed_kept(uf, ws, pad, n - 1,
                                     Append(acc, int(format(Last(uf), pad))))
         ELSE LET seq_number == int(format(Last(uf) + 1, pad))
              IN  AppendFrames_seed_kept(Append(uf, seq_number), ws, pad, n - 1,
                                         Append(acc, seq_number))

\* mutant: the seed entry is not taken as the first frame
RECURSIVE AppendFrames_unseeded(_, _, _, _, _)
AppendFrames_unseeded(uf, ws, pad, n, acc) ==
    IF n <= 0
    THEN [used_frames |-> uf, workfile_start |-> ws, frames |-> acc]
    ELSE LET seq_number == int(format(Last(uf) + 1, pad))
         IN  AppendFrames_unseeded(Append(uf, seq_number), ws, pad, n - 1,
                                   Append(acc, seq_number))

\* the loop of the append branch; acc collects the seq_number of every pass
RECURSIVE AppendFrames(_, _, _, _, _)
AppendFrames(uf, ws, pad, n, acc) ==
    IF n <= 0
    THEN [used_frames |-> uf, workfile_start |-> ws, frames |-> acc]
    ELSE IF Last(uf) = ws
         THEN AppendFrames(uf, ws - 1, pad, n - 1,
                           Append(acc, int(format(Last(uf), pad))))
         ELSE LET seq_number == int(format(Last(uf) + 1, pad))
              IN  AppendFrames(Append(uf, seq_number), ws, pad, n - 1,
                               Append(acc, seq_number))

\* mutant: the block of the end_offset branch is counted downwards
RECURSIVE OffsetFrames_backwards(_, _, _, _)
OffsetFrames_backwards(start_frame, pad, from, to) ==
    IF from > to THEN <<>>
    ELSE <<int(format(start_frame - from, pad))>>
         \o OffsetFrames_backwards(start_frame, pad, from + 1, to)

\* the new_frames of the end_offset branch: range(end_offset + 1, end_offset + duration + 1)
RECURSIVE OffsetFrames(_, _, _, _)
OffsetFrames(start_frame, pad, from, to) ==
    IF from > to THEN <<>>
    ELSE <<int(format(start_frame + from, pad))>>
         \o OffsetFrames(start_frame, pad, from + 1, to)

\* mutant: the block of the end_offset branch is put behind the ledger
GenerateUsedFrames_appended(uf, ws, pad, dur, end_offset) ==
    IF end_offset # 0
    THEN LET new_frames == OffsetFrames(Last(uf), pad, end_offset + 1,
                                        end_offset + dur)
         IN  [used_frames |-> uf \o new_frames, workfile_start |-> ws,
              frames |-> new_frames]
    ELSE AppendFrames(uf, ws, pad, dur, <<>>)

GenerateUsedFrames(uf, ws, pad, dur, end_offset) ==
    IF end_offset # 0
    THEN LET new_frames == OffsetFrames(Last(uf), pad, end_offset + 1,
                                        end_offset + dur)
         IN  [used_frames |-> new_frames \o uf, workfile_start |-> ws,
              frames |-> new_frames]
    ELSE AppendFrames(uf, ws, pad, dur, <<>>)

\* --------------------------------------------------------- representation
SetMin(S) == CHOOSE x \in S : \A y \in S : x <= y
SetMax(S) == CHOOSE x \in S : \A y \in S : x >= y

RECURSIVE SortedSeq(_)
SortedSeq(S) ==
    IF S = {} THEN <<>>
    ELSE LET m == SetMin(S) IN <<m>> \o SortedSeq(S \ {m})

Range(s) == {s[i] : i \in 1..Len(s)}

\* the file names are told apart by their padded index
_create_representation(uf, pad) ==
    LET indexes == Range(uf)
        sorted == SortedSeq(indexes)
    IN  [name |-> "jpg", ext |-> "jpg",
         files |-> [i \in 1..Len(sorted) |-> format(sorted[i], pad)],
         frameStart |-> SetMin(indexes), frameEnd |-> SetMax(indexes),
         stagingDir |-> "staging",
         tags |-> <<"review", "ftrackreview", "delete">>]

\* mutant: the last item is looked for at index n
Reframe_last_missed(s, d, idx, n, hs, he) ==
    IF n > 1 /\ idx = 0 THEN <<s - hs, d + hs>>
    ELSE IF n > 1 /\ idx = n THEN <<s, d + he>>
    ELSE IF n = 1 THEN <<s - hs, d + (hs + he)>>
    ELSE <<s, d>>

\* ------------------------------------------------------ handles (99-111)
\* the (start, duration) process uses for the item at index idx of n items
Reframe(s, d, idx, n, hs, he) ==
    IF n > 1 /\ idx = 0 THEN <<s - hs, d + hs>>
    ELSE IF n > 1 /\ idx = n - 1 THEN <<s, d + he>>
    ELSE IF n = 1 THEN <<s - hs, d + (hs + he)>>
    ELSE <<s, d>>

\* ------------------------------------------- _trim_available_range (193-245)
AvailableRange(item) == [start |-> item.avl_start, duration |-> item.avl_duration]

TrimEnter(avl_range, s, d) ==
    [avl_start |-> avl_range.start,
     src_start |-> avl_range.start + s,
     avl_durtation |-> avl_range.duration - s,
     start |-> s, duration |-> d, gap_duration |-> 0]

\* the segment process renders for a Clip once its range is trimmed (118-139);
\* has_padding is metadata.get("padding") of the media reference
MediaSegment(has_padding, range) ==
    IF has_padding
    THEN [kind |-> "sequence",
          duration |-> Cardinality(_make_sequence_collection(range)),
          end_offset |-> 0]
    ELSE [kind |-> "video", duration |-> range.duration, end_offset |-> 0]

\* lines 242-245 and the return to process, up to the invocation for the media
TrimReturn(item, t) ==
    LET range == _trim_media_range(AvailableRange(item),
                                   _range_from_frames(t.start, t.duration))
    IN  [pc |-> "render", segment |-> MediaSegment(item.padding, range),
         trim |-> NoTrim, available_range |-> range]

\* mutant: the trailing gap is one frame longer
TrimTrailing_long(item, t) ==
    IF t.duration > t.avl_durtation
    THEN LET gap_start == t.src_start + t.avl_durtation
             gap_end == t.src_start + t.duration
             gap_duration == gap_end - gap_start + 1
         IN  [pc |-> "render",
              segment |-> [kind |-> "trail_gap", duration |-> gap_duration,
                           end_offset |-> t.avl_durtation],
              trim |-> [t EXCEPT !.gap_duration = gap_duration],
              available_range |-> AvailableRange(item)]
    ELSE TrimReturn(item, t)

\* lines 227-240, up to the transcoder invocation of the trailing gap
TrimTrailing(item, t) ==
    IF t.duration > t.avl_durtation
    THEN LET gap_start == t.src_start + t.avl_durtation
             gap_end == t.src_start + t.duration
             gap_duration == gap_end - gap_start
         IN  [pc |-> "render",
              segment |-> [kind |-> "trail_gap", duration |-> gap_duration,
                           end_offset |-> t.avl_durtation],
              trim |-> [t EXCEPT !.gap_duration = gap_duration],
              available_range |-> AvailableRange(item)]
    ELSE TrimReturn(item, t)

\* lines 209-219, up to the transcoder invocation of the leading gap
TrimLeading(item, t) ==
    IF t.src_start < t.avl_start
    THEN LET gap_duration == t.src_start - t.avl_start
         IN  [pc |-> "render",
              segment |-> [kind |-> "lead_gap", duration |-> gap_duration,
                           end_offset |-> 0],
              trim |-> [t EXCEPT !.gap_duration = gap_duration],
              available_range |-> AvailableRange(item)]
    ELSE TrimTrailing(item, t)

\* the window w of a Clip lies inside its available media
Covered(item, w) == w[1] >= 0 /\ w[1] + w[2] <= item.avl_duration

\* ------------------------------------------------------------------- Init
Init ==
    /\ n_clips \in 1..MaxItems
    /\ first_type \in {"Clip", "Gap"}
    /\ \E h \in ((0..MaxHandle) \X (0..MaxHandle)) \cup {ScenarioHandles} :
           handle_start = h[1] /\ handle_end = h[2]
    /\ \E d \in InstanceData :
           /\ workfileFrameStart = d.workfileFrameStart
           /\ has_representations = d.has_representations
           /\ representations = d.representations
    /\ data_before = <<has_representations, representations>>
    /\ NoScene
    /\ NoMembers
    /\ used_frames = <<>>
    /\ workfile_start = 0
    /\ padding = 0
    /\ pc = "start"
    /\ error = "none"
    /\ index = 0
    /\ r_otio_cl = NoItem
    /\ start = 0
    /\ duration = 0
    /\ available_range = NoRange
    /\ trim = NoTrim
    /\ segment = NoSegment
    /\ sum_durations = 0
    /\ sum_windows = 0
    /\ all_covered = TRUE
    /\ n_invocations = 0
    /\ item_renders = <<>>
    /\ item_ledger = <<>>
    /\ plugins = <<>>
    /\ calls = <<>>
    /\ disk = {}

\* ------------------------------------------------------ process (53-84)
\* mutant: the list is always started anew
InitialRepresentations_reset(reps) == <<>>

\* lines 82-83: a missing or empty list becomes a new list
InitialRepresentations(reps) == IF reps = <<>> THEN <<>> ELSE reps

\* mutant: the test for a Clip is not negated
NothingToProcess_clip == first_type = "Clip" /\ n_clips = 1

\* the skip test of lines 75-76
NothingToProcess == first_type # "Clip" /\ n_clips = 1

process ==
    /\ pc = "start"
    /\ LET ws == IF workfileFrameStart = <<>> THEN DefaultWorkfileStart
                 ELSE workfileFrameStart[1]
       IN  /\ workfile_start' = ws
           /\ padding' = Len(str(ws))
           /\ used_frames' = <<ws>>
    /\ IF NothingToProcess
       THEN /\ pc' = "skipped"
            /\ UNCHANGED instance_data
       ELSE /\ pc' = "loop"
            /\ has_representations' = TRUE
            /\ representations' = InitialRepresentations(representations)
    /\ UNCHANGED <<hosts, session, instance, error, locals, history, logs>>

\* ------------------------------- process, one pass of the loop (86-126)
IsScenario ==
    /\ n_clips = Len(ScenarioTrack)
    /\ first_type = ScenarioTrack[1].type
    /\ <<handle_start, handle_end>> = ScenarioHandles
    /\ workfileFrameStart = <<>>

\* the items otio_review_clips may hold at index i
ItemsAt(i) ==
    {item \in Items \cup (IF IsScenario THEN {ScenarioTrack[i + 1]} ELSE {}) :
        i = 0 => item.type = first_type}

loop_item ==
    /\ pc = "loop"
    /\ \E item \in ItemsAt(index) :
        /\ LET w == Reframe(item.start, item.duration, index, n_clips,
                            handle_start, handle_end)
               next == IF item.type = "Clip"
                       THEN TrimLeading(item,
                                        TrimEnter(AvailableRange(item), w[1], w[2]))
                       ELSE [pc |-> "render",
                             segment |-> [kind |-> "gap", duration |-> w[2],
                                          end_offset |-> 0],
                             trim |-> NoTrim, available_range |-> NoRange]
           IN  /\ r_otio_cl' = item
               /\ start' = w[1]
               /\ duration' = w[2]
               /\ pc' = next.pc
               /\ segment' = next.segment
               /\ trim' = next.trim
               /\ available_range' = next.available_range
               /\ sum_durations' = sum_durations + item.duration
               /\ sum_windows' = sum_windows + w[2]
               /\ all_covered' =
                      (all_covered /\ (item.type = "Clip" => Covered(item, w)))
    /\ UNCHANGED <<hosts, session, instance, instance_data, ledger, error, index, data_before,
                   logs>>

\* the frames of process and of the calls it is in are gone once it is left
Unwound ==
    /\ index' = 0
    /\ r_otio_cl' = NoItem
    /\ start' = 0
    /\ duration' = 0
    /\ available_range' = NoRange
    /\ trim' = NoTrim
    /\ segment' = NoSegment

\* -------------------------------------------------- _render_seqment (247-326)
\* min(collection.indexes) of line 278 raises on a collection without indexes
EmptySequence == segment.kind = "sequence" /\ segment.duration = 0

\* the invocation: -start_number out_frame_start, for segment.duration frames
Invocation(ok) ==
    LET out == _get_ffmpeg_output(used_frames, workfile_start)
        out_frame_start == IF segment.end_offset # 0
                           THEN out + segment.end_offset ELSE out
    IN  [kind |-> segment.kind, out_frame_start |-> out_frame_start,
         duration |-> segment.duration, ok |-> ok]

_render_seqment ==
    /\ pc = "render"
    /\ ~EmptySequence
    /\ item_renders' = Append(item_renders, Invocation(TRUE))
    /\ n_invocations' = n_invocations + 1
    /\ pc' = "generate"
    /\ UNCHANGED <<hosts, session, instance, instance_data, ledger, error, locals, history,
                   item_ledger>>

\* mutant: the failure of the invocation is swallowed
_render_seqment_swallowed ==
    /\ pc = "render"
    /\ ~EmptySequence
    /\ item_renders' = Append(item_renders, Invocation(FALSE))
    /\ n_invocations' = n_invocations + 1
    /\ pc' = "generate"
    /\ UNCHANGED <<hosts, session, instance, instance_data, ledger, error, locals, history,
                   item_ledger>>

\* pype.api.subprocess raises (line 325)
_render_seqment_raises ==
    /\ pc = "render"
    /\ ~EmptySequence
    /\ item_renders' = Append(item_renders, Invocation(FALSE))
    /\ n_invocations' = n_invocations + 1
    /\ pc' = "raised"
    /\ error' = "subprocess"
    /\ Unwound
    /\ UNCHANGED <<hosts, session, instance, instance_data, ledger, history, item_ledger>>

_render_seqment_empty ==
    /\ pc = "render"
    /\ EmptySequence
    /\ pc' = "raised"
    /\ error' = "ValueError"
    /\ Unwound
    /\ UNCHANGED <<hosts, session, instance, instance_data, ledger, history, logs>>

\* -------------------------------------------- _generate_used_frames (328-360)
\* the ledger update of the segment just rendered
Generated ==
    GenerateUsedFrames(used_frames, workfile_start, padding,
                       segment.duration, segment.end_offset)

\* mutant: the ledger update after a render is left out
Record_skipped == UNCHANGED <<used_frames, workfile_start, padding>>

Record ==
    /\ used_frames' = Generated.used_frames
    /\ workfile_start' = Generated.workfile_start
    /\ UNCHANGED padding

Entry == [kind |-> segment.kind, frames |-> Generated.frames]

\* after the leading gap: start = 0 (224), then len() of an int raises (225)
_generate_used_frames_lead ==
    /\ pc = "generate"
    /\ segment.kind = "lead_gap"
    /\ Record
    /\ item_ledger' = Append(item_ledger, Entry)
    /\ pc' = "raised"
    /\ error' = "TypeError"
    /\ Unwound
    /\ UNCHANGED <<hosts, session, instance, instance_data, history, n_invocations, item_renders>>

\* after the trailing gap: duration = avl_durtation (240), the return (243-245)
\* and process up to the invocation for the media (117-136)
_generate_used_frames_trail ==
    /\ pc = "generate"
    /\ segment.kind = "trail_gap"
    /\ Record
    /\ item_ledger' = Append(item_ledger, Entry)
    /\ LET next == TrimReturn(r_otio_cl,
                              [trim EXCEPT !.duration = trim.avl_durtation])
       IN  /\ pc' = next.pc
           /\ segment' = next.segment
           /\ trim' = next.trim
           /\ available_range' = next.available_range
    /\ UNCHANGED <<hosts, session, instance, instance_data, error, index, r_otio_cl, start,
                   duration, history, n_invocations, item_renders>>

\* after the media of a Clip or a Gap item, with items left: the next pass
_generate_used_frames ==
    /\ pc = "generate"
    /\ segment.kind \in {"video", "sequence", "gap"}
    /\ index + 1 < n_clips
    /\ Record
    /\ index' = index + 1
    /\ pc' = "loop"
    /\ r_otio_cl' = NoItem
    /\ start' = 0
    /\ duration' = 0
    /\ available_range' = NoRange
    /\ segment' = NoSegment
    /\ item_renders' = <<>>
    /\ item_ledger' = <<>>
    /\ UNCHANGED <<hosts, session, instance, instance_data, error, trim, history, n_invocations>>

\* after the last item: the loop ends and lines 146-149 run
_generate_used_frames_last ==
    /\ pc = "generate"
    /\ segment.kind \in {"video", "sequence", "gap"}
    /\ index + 1 = n_clips
    /\ Record
    /\ item_ledger' = Append(item_ledger, Entry)
    /\ representations' =
           Append(representations,
                  _create_representation(Generated.used_frames, padding))
    /\ pc' = "done"
    /\ Unwound
    /\ UNCHANGED <<hosts, session, instance, has_representations, error, history,
                   n_invocations, item_renders>>

Next ==
    \/ process
    \/ loop_item
    \/ _render_seqment
    \/ _render_seqment_raises
    \/ _render_seqment_empty
    \/ _generate_used_frames_lead
    \/ _generate_used_frames_trail
    \/ _generate_used_frames
    \/ _generate_used_frames_last

Spec == Init /\ [][Next]_vars

\* ===================================================================== claims
\* the frame the call starts counting at
WorkfileFrameStart ==
    IF workfileFrameStart = <<>> THEN DefaultWorkfileStart ELSE workfileFrameStart[1]

Window == <<start, duration>>
InPass == pc \in {"render", "generate"}
MediaKinds == {"video", "sequence"}
NewRepresentation == representations[Len(representations)]

\* s, once sorted, is a run of consecutive integers: no value twice, none missing
Consecutive(s) ==
    /\ \A i, j \in 1..Len(s) : i # j => s[i] # s[j]
    /\ \A x \in SetMin(Range(s))..SetMax(Range(s)) : x \in Range(s)

\* C1: after process has handled every item of a track, the entries of
\* used_frames, once sorted, are consecutive integers without a duplicate.
C1_UsedFramesConsecutive == pc = "done" => Consecutive(used_frames)

\* the frames of trailing gap entries of the running pass
TrailEntries == SelectSeq(item_ledger, LAMBDA e : e.kind = "trail_gap")

\* C2: a Clip whose available media ends before the end of its window gets
\* exactly one trailing gap of requestedEnd - avlEnd frames, and the ledger
\* numbers that gap's frames right after the frames of the clip's media.
C2_TrailingGapFollowsMedia ==
    (/\ pc = "generate"
     /\ segment.kind \in MediaKinds
     /\ start + duration > r_otio_cl.avl_duration)
    => /\ Len(TrailEntries) = 1
       /\ Len(TrailEntries[1].frames) = start + duration - r_otio_cl.avl_duration
       /\ LET media == Generated.frames
              gap == TrailEntries[1].frames
          IN  media # <<>> =>
                  \A i \in 1..Len(gap) : gap[i] = media[Len(media)] + i

\* C3: a Clip whose window starts before its available media gets one leading
\* gap of avl_start - src_start frames, rendered and added to used_frames, and
\* _trim_available_range goes on (it does not raise).
C3_LeadingGapEmitted ==
    /\ (pc = "generate" /\ segment.kind = "lead_gap")
       => /\ item_renders[Len(item_renders)].duration = trim.avl_start - trim.src_start
          /\ Len(Generated.frames) = trim.avl_start - trim.src_start
    /\ error # "TypeError"

\* C4: for a Clip whose available range covers its window, the pass reaches the
\* media's invocation with no gap rendered, used_frames as it was, and the
\* trimmed range [available start + window start, window duration].
C4_CoveredClipNoGap ==
    [][(/\ pc = "loop"
        /\ r_otio_cl'.type = "Clip"
        /\ Covered(r_otio_cl', <<start', duration'>>))
       => /\ pc' = "render"
          /\ segment'.kind \in MediaKinds
          /\ segment'.duration = duration'
          /\ UNCHANGED <<used_frames, workfile_start, n_invocations,
                         item_renders, item_ledger>>
          /\ available_range' = [start |-> r_otio_cl'.avl_start + start',
                                 duration |-> duration']]_vars

C4_Witness ==
    /\ pc = "render"
    /\ r_otio_cl.type = "Clip"
    /\ r_otio_cl.avl_start > 0
    /\ start > 0
    /\ Covered(r_otio_cl, Window)
    /\ item_renders = <<>>

\* C5: a track of exactly one Gap item is skipped: no transcoder invocation,
\* instance.data["representations"] as it was (not created when absent).
C5_SingleGapNoOp ==
    /\ (n_clips = 1 /\ first_type = "Gap") => pc \in {"start", "skipped"}
    /\ pc = "skipped"
       => /\ n_invocations = 0
          /\ <<has_representations, representations>> = data_before

C5_Witness ==
    /\ pc = "skipped"
    /\ n_clips = 1
    /\ first_type = "Gap"
    /\ ~has_representations

\* C6: when every Clip's available range covers its window, the representation
\* lists sum(item durations) + handleStart + handleEnd files, from
\* workfileFrameStart to workfileFrameStart + file count - 1.
C6_CoveredTrackFileCount ==
    (pc = "done" /\ all_covered)
    => /\ Len(NewRepresentation.files) = sum_durations + handle_start + handle_end
       /\ NewRepresentation.frameStart = WorkfileFrameStart
       /\ NewRepresentation.frameEnd =
              NewRepresentation.frameStart + Len(NewRepresentation.files) - 1

\* [Gap(5), Clip(10, fully available)], handleStart=2, handleEnd=0, start 1001
C6_Witness ==
    /\ pc = "done"
    /\ IsScenario
    /\ all_covered
    /\ sum_durations = ScenarioTrack[1].duration + ScenarioTrack[2].duration
    /\ Len(NewRepresentation.files) = 17
    /\ NewRepresentation.frameStart = 1001
    /\ NewRepresentation.frameEnd = 1017

\* C7: a single-Clip track whose media ends k > 0 frames before the end of the
\* window, and does not start after the window's start, gets a representation
\* with as many files as the window has frames.
C7_TrailingShortfallFileCount ==
    [][(/\ pc = "generate"
        /\ pc' = "done"
        /\ n_clips = 1
        /\ r_otio_cl.type = "Clip"
        /\ start >= 0
        /\ start + duration > r_otio_cl.avl_duration)
       => Len(representations'[Len(representations')].files) = duration]_vars

C7_Witness ==
    /\ pc = "done"
    /\ n_clips = 1
    /\ first_type = "Clip"
    /\ ~all_covered
    /\ sum_windows >= 3
    /\ Len(NewRepresentation.files) = sum_windows
    /\ ~Consecutive(used_frames)

\* the window the handles give the item at index i of n items
ExpectedWindow(item, i, n) ==
    IF n = 1 THEN <<item.start - handle_start,
                    item.duration + handle_start + handle_end>>
    ELSE IF i = 0 THEN <<item.start - handle_start, item.duration + handle_start>>
    ELSE IF i = n - 1 THEN <<item.start, item.duration + handle_end>>
    ELSE <<item.start, item.duration>>

\* C8: the first item of several gets start - handleStart and
\* duration + handleStart, the last of several duration + handleEnd, an only
\* item both, a middle item nothing; the windows sum to the items' durations
\* plus handleStart + handleEnd.
C8_HandleWindows ==
    /\ InPass => Window = ExpectedWindow(r_otio_cl, index, n_clips)
    /\ pc = "done" => sum_windows = sum_durations + handle_start + handle_end

C8_Witness ==
    /\ InPass
    /\ n_clips = 3
    /\ index = 1
    /\ handle_start = 1
    /\ handle_end = 1
    /\ r_otio_cl.type = "Clip"
    /\ Window = <<r_otio_cl.start, r_otio_cl.duration>>

\* C9: a call that does not raise ends skipped with the representations
\* untouched, or done with one representation appended after the ones that
\* were there, which are unchanged.
C9_TerminalStates ==
    /\ pc \in {"start", "loop", "render", "generate", "skipped", "done", "raised"}
    /\ pc = "start" => ENABLED process
    /\ pc = "loop" => ENABLED loop_item
    /\ pc = "render" => ENABLED (_render_seqment \/ _render_seqment_empty)
    /\ pc = "generate" => (segment.kind # "none" /\ index + 1 <= n_clips)
    /\ pc = "skipped" => <<has_representations, representations>> = data_before
    /\ pc = "done"
       => /\ has_representations
          /\ Len(representations) = Len(data_before[2]) + 1
          /\ SubSeq(representations, 1, Len(data_before[2])) = data_before[2]
          /\ NewRepresentation = _create_representation(used_frames, padding)

C9_Witness ==
    /\ pc = "done"
    /\ data_before[2] = <<PriorRepresentation>>
    /\ Len(representations) = 2
    /\ representations[1] = PriorRepresentation

\* C10: when a transcoder invocation fails the call ends with that error, no
\* further invocation is made and no representation is appended.
C10_FailureIsFatal ==
    /\ \A i \in 1..Len(item_renders) : ~item_renders[i].ok => error = "subprocess"
    /\ error = "subprocess"
       => /\ pc = "raised"
          /\ ~ENABLED Next
          /\ ~item_renders[Len(item_renders)].ok
          /\ representations = data_before[2]

C10_Witness ==
    /\ error = "subprocess"
    /\ n_invocations >= 3
    /\ Len(item_renders) = 2

\* the transcoder invocation made last in the running pass
LastRender == item_renders[Len(item_renders)]

\* the frame numbers an invocation is told to write: -start_number
\* out_frame_start (end_offset already added), one file for each frame
FramesWritten(r) == [i \in 1..r.duration |-> r.out_frame_start + i - 1]

\* the n highest values of the set S, lowest first
TopFrames(S, n) ==
    LET sorted == SortedSeq(S)
    IN  SubSeq(sorted, Len(sorted) - n + 1, Len(sorted))

\* C13: the frame numbers every invocation is told to write are the frame
\* numbers the ledger update that follows it accounts for (the seed entry
\* counting as the first frame of the first append); the k highest files of a
\* single clip with a k-frame trailing shortfall are the gap render's frames.
C13_RenderMatchesLedger ==
    /\ pc = "generate" => FramesWritten(LastRender) = Generated.frames
    /\ (/\ pc = "generate"
        /\ segment.kind \in MediaKinds
        /\ n_clips = 1
        /\ Len(item_renders) = 2
        /\ item_renders[1].kind = "trail_gap")
       => TopFrames(Range(Generated.used_frames), item_renders[1].duration)
              = FramesWritten(item_renders[1])

\* the range r lies inside the available range of item
InsideAvailable(item, r) ==
    /\ r.start >= item.avl_start
    /\ r.start + r.duration <= item.avl_start + item.avl_duration

GapKinds == {"lead_gap", "trail_gap"}

\* C14: for every Clip and window, _trim_available_range returns a range that
\* lies inside the clip's available range, also when the window is short of
\* media at its start (and at both ends).
C14_TrimmedRangeInside ==
    /\ [](pc = "render" /\ segment.kind \in MediaKinds
          => InsideAvailable(r_otio_cl, available_range))
    /\ [][(pc = "generate" /\ segment.kind \in GapKinds)
          => /\ pc' = "render"
             /\ segment'.kind \in MediaKinds \cup {"trail_gap"}]_vars

\* the number of frames the ledger updates of kind k of the running pass added
RECURSIVE EntryFrames(_, _)
EntryFrames(entries, k) ==
    IF entries = <<>> THEN 0
    ELSE (IF entries[1].kind = k THEN Len(entries[1].frames) ELSE 0)
         + EntryFrames(Tail(entries), k)

\* C15: for every Clip the leading gap, the trimmed range and the trailing gap
\* add up to the window's duration, and a window that is short of media at both
\* ends gets a leading and a trailing gap.
C15_WindowAccounted ==
    /\ [](pc = "generate" /\ segment.kind \in MediaKinds
          => /\ EntryFrames(item_ledger, "lead_gap") + available_range.duration
                 + EntryFrames(item_ledger, "trail_gap") = duration
             /\ (start < 0 /\ start + duration > r_otio_cl.avl_duration)
                => /\ EntryFrames(item_ledger, "lead_gap") = -start
                   /\ EntryFrames(item_ledger, "trail_gap")
                          = start + duration - r_otio_cl.avl_duration)
    /\ [][(/\ pc = "generate"
           /\ segment.kind = "lead_gap"
           /\ trim.src_start + trim.duration > trim.avl_start + r_otio_cl.avl_duration)
          => /\ Len(Generated.frames) = trim.avl_start - trim.src_start
             /\ pc' = "render"
             /\ segment'.kind = "trail_gap"]_vars

\* the frame numbers the ledger updates in entries added
RECURSIVE AllFrames(_)
AllFrames(entries) ==
    IF entries = <<>> THEN {}
    ELSE Range(entries[1].frames) \cup AllFrames(Tail(entries))

\* the seed entry of used_frames has not been given to a frame yet
Seeded == Last(used_frames) = workfile_start

\* the frame numbers given to the items before the one of the running pass
EarlierFrames ==
    (Range(used_frames) \ AllFrames(item_ledger))
        \ (IF Seeded THEN {Last(used_frames)} ELSE {})

\* C16: every frame number given to an item is higher than every frame number
\* given to the items before it in the track, also after a trailing gap.
C16_TrackOrder ==
    pc = "generate"
    => \A f \in Range(Generated.frames) : \A e \in EarlierFrames : e < f

\* n consecutive frame numbers, the first one being a
Run(a, n) == [i \in 1..n |-> a + i - 1]

\* C17: an append (no end_offset) of d >= 1 frames accounts for d consecutive
\* frame numbers: at the seed the first one is workfileFrameStart, the seed
\* entry itself (workfile_start goes down by one, nothing is appended for it);
\* every other frame is the last entry plus 1, appended at the end; once the
\* first frame is given the ledger is never at its seed again.
C17_AppendMode ==
    /\ []((pc # "start" /\ workfile_start # WorkfileFrameStart) => ~Seeded)
    /\ [][(pc = "generate" /\ segment.end_offset = 0 /\ segment.duration >= 1)
          => LET d == segment.duration
                 last == Last(used_frames)
             IN  IF Seeded
                 THEN /\ last = WorkfileFrameStart
                      /\ Generated.frames = Run(last, d)
                      /\ workfile_start' = workfile_start - 1
                      /\ used_frames' = used_frames \o Run(last + 1, d - 1)
                 ELSE /\ Generated.frames = Run(last + 1, d)
                      /\ workfile_start' = workfile_start
                      /\ used_frames' = used_frames \o Run(last + 1, d)]_vars

\* two frames appended after 99, with a padding of two digits
C17_Witness ==
    /\ pc \in {"loop", "done"}
    /\ workfileFrameStart = <<98>>
    /\ workfile_start = 97
    /\ Len(used_frames) >= 4
    /\ Last(used_frames) = 101

\* C18: a ledger update with a non-zero end_offset puts the frames
\* last + end_offset + 1 .. last + end_offset + duration, last being the final
\* entry, as one block in front of used_frames; the entries that were there
\* keep their values and order, the final entry and workfile_start stay.
C18_OffsetInsertMode ==
    [][(pc = "generate" /\ segment.end_offset # 0)
       => LET block == Run(Last(used_frames) + segment.end_offset + 1,
                           segment.duration)
          IN  /\ Generated.frames = block
              /\ used_frames' = block \o used_frames
              /\ Last(used_frames') = Last(used_frames)
              /\ workfile_start' = workfile_start]_vars

\* a block of two frames put in front of a ledger of several entries
C18_Witness ==
    /\ pc = "render"
    /\ segment.kind \in MediaKinds
    /\ TrailEntries # <<>>
    /\ Len(TrailEntries[1].frames) = 2
    /\ Len(used_frames) >= 4
    /\ ~Seeded
    /\ SubSeq(used_frames, 1, 2) = TrailEntries[1].frames

\* the running pass is the last one of a track of two Gap items
TwoGapsTrack ==
    /\ n_clips = 2
    /\ first_type = "Gap"
    /\ index = 1
    /\ r_otio_cl.type = "Gap"

\* C19: a track without any Clip item (one Gap; several Gaps, here two) is
\* skipped: no transcoder invocation, no representation, no error.
C19_NoClipSkipped ==
    /\ []((n_clips = 1 /\ first_type = "Gap")
          => /\ pc \in {"start", "skipped"}
             /\ n_invocations = 0
             /\ error = "none"
             /\ representations = data_before[2])
    /\ [](TwoGapsTrack => n_invocations = 0)
    /\ [][TwoGapsTrack => representations' = representations]_vars

\* C20: within a call, invocations and ledger updates alternate and follow the
\* track: every invocation that returns is followed by one ledger update for
\* the same segment (same duration, same end_offset) before the next
\* invocation, and the loop moves to the next item only after the last segment
\* of the item has been rendered and recorded.
C20_RenderThenRecord ==
    /\ [](pc \in {"loop", "render"} => Len(item_renders) = Len(item_ledger))
    /\ [](pc = "generate"
          => /\ Len(item_renders) = Len(item_ledger) + 1
             /\ LastRender.ok
             /\ LastRender.kind = segment.kind
             /\ LastRender.duration = segment.duration
             /\ LastRender.out_frame_start
                    = _get_ffmpeg_output(used_frames, workfile_start)
                          + segment.end_offset)
    /\ [][/\ n_invocations' # n_invocations
             => /\ pc = "render"
                /\ n_invocations' = n_invocations + 1
                /\ UNCHANGED <<used_frames, workfile_start>>
          /\ pc = "generate"
             => /\ UNCHANGED n_invocations
                /\ used_frames' =
                       GenerateUsedFrames(used_frames, workfile_start, padding,
                                          LastRender.duration,
                                          segment.end_offset).used_frames
          /\ (pc # "start" /\ used_frames' # used_frames) => pc = "generate"
          /\ index' # index
             => \/ pc' \in {"done", "raised"}
                \/ /\ pc = "generate"
                   /\ segment.kind \notin GapKinds
                   /\ index' = index + 1
                   /\ pc' = "loop"]_vars

\* the last of three items took two invocations and two ledger updates
C20_Witness ==
    /\ pc = "done"
    /\ n_clips = 3
    /\ n_invocations >= 4
    /\ Len(item_renders) = 2
    /\ Len(item_ledger) = 2
    /\ \A i \in 1..2 : item_renders[i].kind = item_ledger[i].kind

\* ============================================================ publish session
\* Several calls of process in one session, each for its own publish instance,
\* on the same plugin object or on different ones.  An attribute that
\* process sets with "self.x = ..." is kept on the plugin object; an attribute
\* that was never set on the object is read from the class.

\* plugin default attributes (class attributes)
DefaultWidth == 800
DefaultHeight == 600

\* a plugin object on which nothing was set yet: <<>> is an attribute the
\* object does not have (to_width and to_height are then the class's numbers,
\* staging_dir the method of pype.api.Extractor)
NewPlugin ==
    [used_frames |-> <<>>, workfile_start |-> 0, padding |-> 0,
     to_width |-> <<>>, to_height |-> <<>>, staging_dir |-> <<>>]

\* self.to_width, self.to_height
to_width(o) == IF o.to_width = <<>> THEN DefaultWidth ELSE o.to_width[1]
to_height(o) == IF o.to_height = <<>> THEN DefaultHeight ELSE o.to_height[1]

\* pype.api.Extractor.staging_dir(instance): the directory of the instance
staging_dir(i) == <<"stagingDir", i>>

\* the tracks of the instances of a session
Tracks ==
    {<<Gap(1)>>,
     <<Clip(0, 1, 0, 1, FALSE)>>,
     <<Clip(0, MaxDuration, 0, 1, FALSE)>>,
     <<Gap(MaxDuration), Clip(0, 1, 3, 1, TRUE)>>,
     <<Clip(1, MaxDuration, 0, MaxAvailable, FALSE), Gap(1)>>}

\* instance.data: resolutionWidth and resolutionHeight are optional keys;
\* fail_at is the number of the invocation the transcoder fails at (0: none)
Instances ==
    {[track |-> tr, handle_start |-> hs, handle_end |-> 0,
      workfileFrameStart |-> <<>>, resolutionWidth |-> res[1],
      resolutionHeight |-> res[2], fail_at |-> f] :
        tr \in Tracks, hs \in {0, MaxHandle},
        res \in {<<<<>>, <<>>>>, <<<<1920>>, <<1080>>>>}, f \in {0, 2}}

CallIds == {1, 2}
Ended == {"skipped", "done", "raised"}

\* call i, of process(instance i) on plugin object p, before its first step
NewCall(i, p, data) ==
    [instance |-> i, plugin |-> p, data |-> data,
     has_representations |-> FALSE, representations |-> <<>>,
     pc |-> "start", error |-> "none", index |-> 0, r_otio_cl |-> NoItem,
     start |-> 0, duration |-> 0, available_range |-> NoRange,
     trim |-> NoTrim, segment |-> NoSegment, renders |-> <<>>]

\* the locals of a call that has ended
Left(c) ==
    [c EXCEPT !.index = 0, !.r_otio_cl = NoItem, !.start = 0, !.duration = 0,
              !.available_range = NoRange, !.trim = NoTrim,
              !.segment = NoSegment]

Raise(c, e) == Left([c EXCEPT !.pc = "raised", !.error = e])

\* lines 64-68: self.used_frames, self.workfile_start, self.padding
Attributes(o, uf, ws) ==
    [o EXCEPT !.used_frames = uf, !.workfile_start = ws, !.padding = Len(str(ws))]

\* process up to the loop (lines 58-83), of call c on the plugin object o
CallProcess(c, o) ==
    LET data == c.data
        ws == IF data.workfileFrameStart = <<>> THEN DefaultWorkfileStart
              ELSE data.workfileFrameStart[1]
        width == IF data.resolutionWidth # <<>> THEN data.resolutionWidth[1]
                 ELSE to_width(o)
        height == IF data.resolutionHeight # <<>> THEN data.resolutionHeight[1]
                  ELSE to_height(o)
        o1 == [Attributes(o, <<ws>>, ws) EXCEPT !.to_width = <<width>>,
                                                 !.to_height = <<height>>]
    IN  IF data.track[1].type # "Clip" /\ Len(data.track) = 1
        THEN [call |-> [c EXCEPT !.pc = "skipped"], plugin |-> o1, files |-> {}]
        ELSE IF o1.staging_dir # <<>>
        \* line 81 calls self.staging_dir, by now the str an earlier call set
        THEN [call |-> Raise(c, "TypeError"), plugin |-> o1, files |-> {}]
        ELSE [call |-> [c EXCEPT !.pc = "loop", !.has_representations = TRUE,
                                 !.representations =
                                     InitialRepresentations(c.representations)],
              plugin |-> [o1 EXCEPT !.staging_dir = <<staging_dir(c.instance)>>],
              files |-> {}]

\* one pass of the loop up to its first invocation (lines 86-126)
CallLoop(c, o) ==
    LET item == c.data.track[c.index + 1]
        w == Reframe(item.start, item.duration, c.index, Len(c.data.track),
                     c.data.handle_start, c.data.handle_end)
        next == IF item.type = "Clip"
                THEN TrimLeading(item, TrimEnter(AvailableRange(item), w[1], w[2]))
                ELSE [pc |-> "render",
                      segment |-> [kind |-> "gap", duration |-> w[2],
                                   end_offset |-> 0],
                      trim |-> NoTrim, available_range |-> NoRange]
    IN  [call |-> [c EXCEPT !.r_otio_cl = item, !.start = w[1], !.duration = w[2],
                            !.pc = next.pc, !.segment = next.segment,
                            !.trim = next.trim,
                            !.available_range = next.available_range],
         plugin |-> o, files |-> {}]

\* _render_seqment (lines 267-325): the invocation writes its frames into
\* self.staging_dir; a gap is rendered in self.to_width x self.to_height
CallRender(c, o) ==
    LET seg == c.segment
        out == _get_ffmpeg_output(o.used_frames, o.workfile_start)
        is_gap == seg.kind \in {"gap", "lead_gap", "trail_gap"}
        ok == Len(c.renders) + 1 # c.data.fail_at
        render == [kind |-> seg.kind,
                   out_frame_start |-> IF seg.end_offset # 0
                                       THEN out + seg.end_offset ELSE out,
                   duration |-> seg.duration, ok |-> ok,
                   size |-> IF is_gap THEN <<to_width(o), to_height(o)>>
                            ELSE <<>>]
        rendered == [c EXCEPT !.renders = Append(c.renders, render)]
    IN  IF seg.kind = "sequence" /\ seg.duration = 0
        THEN [call |-> Raise(c, "ValueError"), plugin |-> o, files |-> {}]
        ELSE IF ~ok
        THEN [call |-> Raise(rendered, "subprocess"), plugin |-> o, files |-> {}]
        ELSE [call |-> [rendered EXCEPT !.pc = "generate"], plugin |-> o,
              files |-> {[dir |-> o.staging_dir[1],
                          frame |-> render.out_frame_start + k - 1,
                          by |-> c.instance] : k \in 1..seg.duration}]

\* _generate_used_frames and the code up to the next invocation or the end
CallGenerate(c, o) ==
    LET seg == c.segment
        g == GenerateUsedFrames(o.used_frames, o.workfile_start, o.padding,
                                seg.duration, seg.end_offset)
        o1 == [o EXCEPT !.used_frames = g.used_frames,
                        !.workfile_start = g.workfile_start]
        next == TrimReturn(c.r_otio_cl,
                           [c.trim EXCEPT !.duration = c.trim.avl_durtation])
        representation ==
            [_create_representation(g.used_frames, o.padding)
                 EXCEPT !.stagingDir = o.staging_dir[1]]
    IN  [plugin |-> o1, files |-> {},
         call |->
            IF seg.kind = "lead_gap" THEN Raise(c, "TypeError")
            ELSE IF seg.kind = "trail_gap"
            THEN [c EXCEPT !.pc = next.pc, !.segment = next.segment,
                           !.trim = next.trim,
                           !.available_range = next.available_range]
            ELSE IF c.index + 1 < Len(c.data.track)
            THEN [Left(c) EXCEPT !.pc = "loop", !.index = c.index + 1]
            ELSE Left([c EXCEPT !.pc = "done",
                                !.representations =
                                    Append(c.representations, representation)])]

\* the step of call c that its position asks for
CallStep(c, o) ==
    IF c.pc = "start" THEN CallProcess(c, o)
    ELSE IF c.pc = "loop" THEN CallLoop(c, o)
    ELSE IF c.pc = "render" THEN CallRender(c, o)
    ELSE CallGenerate(c, o)

\* the variables of the single call of Spec are not in use in a session
NoCall ==
    /\ n_clips = 1
    /\ first_type = "Gap"
    /\ handle_start = 0
    /\ handle_end = 0
    /\ workfileFrameStart = <<>>
    /\ has_representations = FALSE
    /\ representations = <<>>
    /\ data_before = <<FALSE, <<>>>>
    /\ used_frames = <<>>
    /\ workfile_start = 0
    /\ padding = 0
    /\ pc = "start"
    /\ error = "none"
    /\ index = 0
    /\ r_otio_cl = NoItem
    /\ start = 0
    /\ duration = 0
    /\ available_range = NoRange
    /\ trim = NoTrim
    /\ segment = NoSegment
    /\ sum_durations = 0
    /\ sum_windows = 0
    /\ all_covered = TRUE
    /\ n_invocations = 0
    /\ item_renders = <<>>
    /\ item_ledger = <<>>

\* two instances; the second call is made on the plugin object of the first
\* call or on an object of its own
InitSession ==
    /\ NoCall
    /\ NoScene
    /\ NoMembers
    /\ plugins = [p \in CallIds |-> NewPlugin]
    /\ \E d1, d2 \in Instances : \E p \in CallIds :
           calls = <<NewCall(1, 1, d1), NewCall(2, p, d2)>>
    /\ disk = {}

\* mutant: the attributes are set on the class, which every object reads
SetAttributes_on_class(plugs, p, o) == [q \in DOMAIN plugs |-> o]

\* "self.x = ...": the attributes of the plugin object p become those of o
SetAttributes(plugs, p, o) == [plugs EXCEPT ![p] = o]

\* a file that is written replaces the file of that name
WriteFiles(files, new) ==
    {f \in files : \A n \in new : <<n.dir, n.frame>> # <<f.dir, f.frame>>}
        \cup new

\* calls on one plugin object follow each other; calls on different plugin
\* objects take their steps in any order
MayStep(i) ==
    /\ calls[i].pc \notin Ended
    /\ \A j \in CallIds :
           (j < i /\ calls[j].plugin = calls[i].plugin) => calls[j].pc \in Ended

SessionStep(i) ==
    LET c == calls[i]
        n == CallStep(c, plugins[c.plugin])
    IN  /\ calls' = [calls EXCEPT ![i] = n.call]
        /\ plugins' = SetAttributes(plugins, c.plugin, n.plugin)
        /\ disk' = WriteFiles(disk, n.files)
        /\ UNCHANGED <<instance, instance_data, ledger, pc, error, locals,
                       history, logs, hosts>>

session_process ==
    \E i \in CallIds : MayStep(i) /\ calls[i].pc = "start" /\ SessionStep(i)

session_loop ==
    \E i \in CallIds : MayStep(i) /\ calls[i].pc = "loop" /\ SessionStep(i)

session_render ==
    \E i \in CallIds : MayStep(i) /\ calls[i].pc = "render" /\ SessionStep(i)

session_generate ==
    \E i \in CallIds : MayStep(i) /\ calls[i].pc = "generate" /\ SessionStep(i)

NextSession ==
    \/ session_process
    \/ session_loop
    \/ session_render
    \/ session_generate

SpecSession == InitSession /\ [][NextSession]_vars

\* what a call leaves behind: how it ended, the ledger, the representations of
\* its instance, and its invocations (with the size of the gap frames)
Outcome(c, o) ==
    [pc |-> c.pc, error |-> c.error, used_frames |-> o.used_frames,
     representations |-> c.representations, renders |-> c.renders]

\* the outcome of the call when it runs alone on a new plugin object
RECURSIVE RunAlone(_, _)
RunAlone(c, o) ==
    IF c.pc \in Ended THEN Outcome(c, o)
    ELSE LET n == CallStep(c, o) IN RunAlone(n.call, n.plugin)

Alone(i) == RunAlone(NewCall(i, i, calls[i].data), NewPlugin)

PluginOf(i) == plugins[calls[i].plugin]
OwnObjects == calls[1].plugin # calls[2].plugin

\* C11: two calls for two instances, each on its own plugin object, with their
\* steps in any order, end as each ends alone (same used_frames, same
\* representation); a step of one call leaves the other call, its plugin
\* object and its staging directory alone.
C11_CallsIndependent ==
    /\ [](OwnObjects
          => /\ \A i \in CallIds :
                    calls[i].pc \in Ended
                    => Outcome(calls[i], PluginOf(i)) = Alone(i)
             /\ \A f \in disk : f.dir = staging_dir(f.by))
    /\ [][OwnObjects
          => \A i, j \in CallIds :
                 (i # j /\ calls'[i] # calls[i])
                 => /\ calls'[j] = calls[j]
                    /\ plugins'[calls[j].plugin] = PluginOf(j)
                    /\ {f \in disk' : f.by = j} = {f \in disk : f.by = j}]_vars

\* both calls are between an invocation and its ledger update, and both ledgers
\* are past their first frame
C11_Witness ==
    /\ OwnObjects
    /\ \A i \in CallIds :
           /\ calls[i].pc = "generate"
           /\ Len(PluginOf(i).used_frames) >= 2
           /\ \E f \in disk : f.by = i

\* C12: the outcome of a call (how it ends, used_frames, the representation,
\* the size of its gap frames) depends on its instance only: on a plugin object
\* that already processed another instance it is the outcome on a new object,
\* and without resolutionWidth/resolutionHeight the gap frames are 800x600.
C12_OutcomeFromInstanceOnly ==
    \A i \in CallIds :
        /\ calls[i].pc \in Ended
           => Outcome(calls[i], PluginOf(i)) = Alone(i)
        /\ \A k \in 1..Len(calls[i].renders) :
               (/\ calls[i].renders[k].size # <<>>
                /\ calls[i].data.resolutionWidth = <<>>
                /\ calls[i].data.resolutionHeight = <<>>)
               => calls[i].renders[k].size = <<DefaultWidth, DefaultHeight>>

\* C21: once process has seeded the ledger, the smallest entry of used_frames
\* is the workfileFrameStart of the call (1001 when the instance gives none),
\* whatever gaps were found and although workfile_start is decremented; so the
\* representation's frameStart is workfileFrameStart.
C21_FrameStartIsWorkfileStart ==
    /\ pc # "start" => SetMin(Range(used_frames)) = WorkfileFrameStart
    /\ pc = "done" => NewRepresentation.frameStart = WorkfileFrameStart

\* a trailing gap was put in front of the ledger and the seed was used
C21_Witness ==
    /\ pc = "done"
    /\ workfileFrameStart = <<98>>
    /\ workfile_start = 97
    /\ used_frames[1] > 98
    /\ Len(used_frames) >= 3
    /\ NewRepresentation.frameStart = 98

\* C22: the start number of every invocation (before end_offset is added) is
\* workfile_start while the ledger is at its seed and the last entry of
\* used_frames plus 1 otherwise; resolving it changes neither used_frames nor
\* workfile_start.
C22_StartNumberFromLedger ==
    [][(pc = "render" /\ n_invocations' = n_invocations + 1)
       => /\ item_renders'[Len(item_renders')].out_frame_start - segment.end_offset
                 = IF Seeded THEN workfile_start ELSE Last(used_frames) + 1
          /\ UNCHANGED <<used_frames, workfile_start>>]_vars

\* an invocation at the seed and, two invocations later, one past the seed
C22_Witness ==
    /\ pc = "generate"
    /\ ~Seeded
    /\ n_invocations >= 3
    /\ Len(item_renders) = 1
    /\ LastRender.out_frame_start = Last(used_frames) + 1
    /\ LastRender.out_frame_start > WorkfileFrameStart + 1

\* ===================================================================
\* The render layer creator of Maya (CreateRenderlayer)
\* ===================================================================

identifier == "io.openpype.creators.maya.renderlayer"
singleton_node_name == "renderingMain"

\* the names render layers have in the scenes that are explored
Layers == {"Main", "beauty"}

\* the values of the data of an instance that the artist edits
Data == {0, 1}

\* an instance of another creator in the create context
OtherInstance ==
    [creator_identifier |-> "io.openpype.creators.maya.camera",
     layer |-> "", instance_node |-> <<"cameraMain">>, data |-> 0]

\* cmds.sets(name=...): Maya makes a new set and numbers the name when a
\* node of that name exists
sets(name, existing) ==
    LET k == CHOOSE k \in 0..Cardinality(existing) :
                 /\ <<name, k>> \notin existing
                 /\ \A j \in 0..(k - 1) : <<name, j>> \in existing
    IN  <<name, k>>

\* mutant: no node is ever found
_get_singleton_node_none(nodes, return_all) == {}

\* the nodes found (all of them or the first one); none is the empty set
_get_singleton_node(nodes, return_all) ==
    IF nodes = {} THEN {}
    ELSE IF return_all THEN nodes
    ELSE {CHOOSE n \in nodes : \A m \in nodes : n[2] <= m[2]}

\* the sets connected to the layer that carry the identifier of the creator
find_layer_instance_node(layer) ==
    {n \in DOMAIN instance_nodes :
         /\ instance_nodes[n].renderlayer = layer
         /\ instance_nodes[n].creator_identifier = identifier}

\* CreatedInstance.from_existing(read_instance_node(node))
from_existing(node) ==
    [creator_identifier |-> instance_nodes[node].creator_identifier,
     layer |-> instance_nodes[node].renderlayer,
     instance_node |-> <<node>>,
     data |-> instance_nodes[node].data]

\* CreatedInstance(family, subset_name, data): no instance_node yet
CreatedInstance(layer) ==
    [creator_identifier |-> identifier, layer |-> layer,
     instance_node |-> <<>>, data |-> 0]

\* the instances collect_instances adds to the context, given the nodes that
\* carry pre_creator_identifier and the render layers
collected(nodes, layers) ==
    IF _get_singleton_node(nodes, FALSE) = {} THEN {}
    ELSE {IF find_layer_instance_node(layer) # {}
          THEN from_existing(CHOOSE n \in find_layer_instance_node(layer) : TRUE)
          ELSE CreatedInstance(layer) : layer \in layers}

\* CreateContext.reset_instances: the context is emptied and every creator
\* collects again; the other creators find the instances they had
reset_instances(ctx) == {i \in ctx : i.creator_identifier # identifier}

\* the name of the set of a layer: "_renderingMain:<layer>"
LayerSetName(layer) == <<singleton_node_name, layer>>

\* the set made for the layer, linked to it and not yet imprinted
_create_layer_instance_node(layer) ==
    sets(LayerSetName(layer), DOMAIN instance_nodes)

\* the data of the instance is written on the node
imprint_instance_node(nodes, node, i) ==
    [n \in DOMAIN nodes \cup {node} |->
        IF n = node
        THEN [renderlayer |-> i.layer,
              creator_identifier |-> i.creator_identifier, data |-> i.data]
        ELSE nodes[n]]

\* mutant: only the instances given are removed
InstancesToRemove_given(ctx, instances) == instances

\* "Remove ALL the instances even if only one gets deleted"
InstancesToRemove(ctx, instances) ==
    {i \in ctx : i.creator_identifier = identifier}

\* what the creator leaves alone
NoHostCall == <<instance, instance_data, ledger, pc, error, locals, history,
                logs, session>>

\* the call and how it ended, after the two calls before it
Called(name, args, err) ==
    op' = [name |-> name, args |-> args, error |-> err,
           after |-> IF op.after = <<>> THEN <<op.name>>
                     ELSE <<op.name, op.after[1]>>]

create ==
    /\ IF _get_singleton_node(singleton_nodes, FALSE) # {}
       THEN /\ Called("create", {}, "CreatorError")
            /\ UNCHANGED <<singleton_nodes, render_layers, instance_nodes,
                           renderer_settings, context>>
       ELSE /\ renderer_settings' = IF apply_render_settings THEN "default"
                                    ELSE renderer_settings
            /\ render_layers' = IF render_layers = {} THEN {"Main"}
                                ELSE render_layers
            /\ singleton_nodes' = singleton_nodes
                   \cup {sets(singleton_node_name, singleton_nodes)}
            /\ context' = context \cup collected(singleton_nodes', render_layers')
            /\ Called("create", {}, "none")
            /\ UNCHANGED instance_nodes
    /\ UNCHANGED <<apply_render_settings, tyflow, NoHostCall>>

collect_instances ==
    /\ context' = reset_instances(context)
                      \cup collected(singleton_nodes, render_layers)
    /\ Called("collect_instances", {}, "none")
    /\ UNCHANGED <<singleton_nodes, render_layers, instance_nodes,
                   renderer_settings, apply_render_settings, tyflow, NoHostCall>>

RECURSIVE ImprintEach(_, _)
\* the pass of update_instances over the instances that got a node
ImprintEach(nodes, todo) ==
    IF todo = {} THEN nodes
    ELSE LET i == CHOOSE i \in todo : TRUE
         IN  ImprintEach(imprint_instance_node(nodes, i.instance_node[1], i),
                         todo \ {i})

\* the update list holds instances of the creator with the changes of the
\* artist; an instance that has a node is passed over ("continue")
update_instances ==
    \E update_list \in
           (SUBSET {i \in context : i.creator_identifier = identifier}) \ {{}} :
    \E changes \in [update_list -> Data] :
        LET changed == [i \in update_list |-> [i EXCEPT !.data = changes[i]]]
            without == {i \in update_list : i.instance_node = <<>>}
            stored == [i \in without |->
                          [changed[i] EXCEPT !.instance_node =
                               <<_create_layer_instance_node(i.layer)>>]]
            layers == {i.layer : i \in update_list}
        IN  IF without # {} /\ _get_singleton_node(singleton_nodes, FALSE) = {}
            THEN /\ context' = (context \ update_list)
                                   \cup {changed[i] : i \in update_list}
                 /\ Called("update_instances", layers, "CreatorError")
                 /\ UNCHANGED instance_nodes
            ELSE /\ instance_nodes' =
                        ImprintEach(instance_nodes, {stored[i] : i \in without})
                 /\ context' = (context \ update_list)
                        \cup {IF i \in without THEN stored[i] ELSE changed[i] :
                                  i \in update_list}
                 /\ Called("update_instances", layers, "none")
    /\ UNCHANGED <<singleton_nodes, render_layers, renderer_settings,
                   apply_render_settings, tyflow, NoHostCall>>

remove_instances ==
    \E instances \in
           (SUBSET {i \in context : i.creator_identifier = identifier}) \ {{}} :
        LET nodes == _get_singleton_node(singleton_nodes, TRUE)
            removed == InstancesToRemove(context, instances)
            stored == {n \in DOMAIN instance_nodes :
                           \E i \in removed : i.instance_node = <<n>>}
        IN  /\ singleton_nodes' = singleton_nodes \ nodes
            /\ context' = context \ removed
            /\ instance_nodes' =
                   [n \in DOMAIN instance_nodes \ stored |-> instance_nodes[n]]
            /\ Called("remove_instances", {i.layer : i \in instances}, "none")
    /\ UNCHANGED <<render_layers, renderer_settings, apply_render_settings,
                   tyflow, NoHostCall>>

\* a scene as the creator saved it, opened in the publisher
InitCreator ==
    /\ NoCall
    /\ NoSession
    /\ NoMembers
    /\ render_layers \in SUBSET Layers
    /\ singleton_nodes \in {{}, {<<singleton_node_name, 0>>}}
    /\ \E saved \in SUBSET render_layers : \E d \in [saved -> Data] :
           /\ singleton_nodes = {} => saved = {}
           /\ instance_nodes =
                  [n \in {<<LayerSetName(l), 0>> : l \in saved} |->
                      [renderlayer |-> n[1][2],
                       creator_identifier |-> identifier,
                       data |-> d[n[1][2]]]]
    /\ renderer_settings \in {"custom", "default"}
    /\ apply_render_settings \in BOOLEAN
    /\ context = {OtherInstance} \cup collected(singleton_nodes, render_layers)
    /\ op = NoOp

NextCreator ==
    \/ create
    \/ collect_instances
    \/ update_instances
    \/ remove_instances

SpecCreator == InitCreator /\ [][NextCreator]_vars

\* ------------------------------------------------ claims on the creator

Scene == <<singleton_nodes, render_layers, instance_nodes, renderer_settings>>

\* the instances of the creator in a context
Own(ctx) == {i \in ctx : i.creator_identifier = identifier}

\* C23: over any sequence of create and remove_instances calls the scene
\* holds at most one node that carries pre_creator_identifier: a create call
\* made while such a node exists ends in CreatorError and changes neither
\* the sets, the render layers, the renderer settings nor the context, and
\* a create call that follows remove_instances succeeds and makes the node.
C23_OneSingletonNode ==
    /\ [](Cardinality(singleton_nodes) <= 1)
    /\ [][op'.name = "create"
          => /\ singleton_nodes # {}
                 => op'.error = "CreatorError" /\ UNCHANGED <<Scene, context>>
             /\ op.name = "remove_instances"
                 => op'.error = "none" /\ Cardinality(singleton_nodes') = 1]_vars

C23_Witness ==
    /\ op.name = "create" /\ op.error = "CreatorError"
    /\ op.after = <<"create", "remove_instances">>
    /\ apply_render_settings
    /\ Cardinality(singleton_nodes) = 1
    /\ Own(context) # {}

\* the node the instance names, if the scene holds it
NodeOf(i) == {n \in DOMAIN instance_nodes : i.instance_node = <<n>>}

\* C24: after update_instances every instance of the update list has an
\* instance node in the scene and the data the instance holds now is the
\* data imprinted on that node, whether the node was made by this call or
\* was there before it.
C24_UpdatePersistsData ==
    (op.name = "update_instances" /\ op.error = "none")
        => \A i \in Own(context) :
               i.layer \in op.args
                   => /\ NodeOf(i) # {}
                      /\ \A n \in NodeOf(i) : instance_nodes[n].data = i.data

\* one instance of the creator for each render layer and no other
OnePerLayer(ctx, layers) ==
    /\ \A l \in layers : Cardinality({i \in Own(ctx) : i.layer = l}) = 1
    /\ \A i \in Own(ctx) : i.layer \in layers

SubAnims == {<<>>, <<FALSE>>, <<TRUE>>, <<FALSE, TRUE>>}

\* instance.data["members"]
Members == UNION {[1..n -> SubAnims] : n \in 0..MaxMembers}

\* str(boolean)
str_boolean(b) == IF b THEN "True" ELSE "False"

\* the inner loop: one string is appended for each sub-anim of the member
AppendBooleans(list, sub_anims) ==
    list \o [k \in 1..Len(sub_anims) |-> str_boolean(sub_anims[k])]

\* "True" in bool_list
Contains(list, x) == \E k \in 1..Len(list) : list[k] = x

NoTyflowCall == <<instance, instance_data, ledger, pc, error, locals, history,
                  logs, session, maya>>

\* entry of get_tyflow_operator: both lists are made once, before the loop
get_tyflow_operator ==
    /\ tpc = "start"
    /\ invalid' = <<>>
    /\ bool_list' = <<>>
    /\ sel' = 1
    /\ tpc' = "for sel"
    /\ UNCHANGED <<members, NoTyflowCall>>

\* one pass of the loop over the members
for_sel ==
    /\ tpc = "for sel"
    /\ sel <= Len(members)
    /\ bool_list' = AppendBooleans(bool_list, members[sel])
    /\ invalid' = IF ~Contains(bool_list', "True") THEN Append(invalid, sel)
                  ELSE invalid
    /\ sel' = sel + 1
    /\ UNCHANGED <<members, tpc, NoTyflowCall>>

\* the list is returned to process, which raises when it is not empty (the
\* members are tyFlow objects: get_tyflow_object finds nothing)
return_invalid ==
    /\ tpc = "for sel"
    /\ sel > Len(members)
    /\ tpc' = IF invalid # <<>> THEN "PublishValidationError" ELSE "done"
    /\ UNCHANGED <<members, sel, bool_list, invalid, NoTyflowCall>>

InitTyflow ==
    /\ NoCall
    /\ NoSession
    /\ NoScene
    /\ members \in Members
    /\ sel = 0
    /\ bool_list = <<>>
    /\ invalid = <<>>
    /\ tpc = "start"

NextTyflow ==
    \/ get_tyflow_operator
    \/ for_sel
    \/ return_invalid

SpecTyflow == InitTyflow /\ [][NextTyflow]_vars

\* whether a member has a sub-anim with the property Export_Particles
HasExportParticles(sub_anims) == \E k \in 1..Len(sub_anims) : sub_anims[k]

\* C26: the list get_tyflow_operator returns holds exactly the members that
\* have no sub-anim with the property Export_Particles, each once: a member
\* is judged on its own sub-anims, whatever the other members are and
\* wherever it stands in the list.
C26_MembersJudgedAlone ==
    tpc \in {"done", "PublishValidationError"}
        => /\ {invalid[k] : k \in 1..Len(invalid)}
                  = {p \in 1..Len(members) : ~HasExportParticles(members[p])}
           /\ \A j, k \in 1..Len(invalid) : j # k => invalid[j] # invalid[k]

====
